---- MODULE Spec2Model ----
\* A model of the skupper-X management controller: the certificate pipeline
\* (processNewNetworks / processCertificateRequests), the site protocol
\* dispatcher (DispatchMessage) and the store they work on.
EXTENDS Integers, Sequences, FiniteSets, TLC

\* ------------------------------------------------------------------ bounds
\* The clock runs from 0 to MaxTime (seconds, the precision of timestamp (0)).
MaxTime == 1
\* At most MaxFailures store operations fail in one behaviour.
MaxFailures == 2

\* Controller instances that run against the same store.
Procs == {"mc1", "mc2"}
WorkerA == "processNewNetworks"
WorkerB == "processCertificateRequests"
Workers == {WorkerA, WorkerB}
Threads == Procs \X Workers

\* A nullable column is <<>> (NULL) or <<v>>.
NULL == <<>>
IsNull(x) == x = <<>>
Val(x) == x[1]

\* ------------------------------------------------------- time conversions
\* Date.getTime(): milliseconds of a timestamp held in seconds.
getTime(ts) == ts * 1000
\* db.IntervalMilliseconds: an interval second (0) in milliseconds.
IntervalMilliseconds(iv) == iv * 1000
\* Storing a Date (milliseconds) into a timestamp (0) column rounds to seconds.
ToTimestamp0(ms) == (ms + 500) \div 1000
\* config.DefaultCaExpiration(): the default CA lifetime, an interval in seconds.
DefaultCaExpiration == 3

\* reschedule delays (milliseconds)
StartDelay == 1000
IdleDelay == 2000
DrainDelay == 0
ErrorDelay == 10000

\* --------------------------------------------------------------- the store
NetIds == {"net1", "net2"}
\* Column defaults of the rows other components create.
OperStatusDefault == "new"
ProcessingDefault == FALSE

\* (StartTime, EndTime, DeleteDelay) of the networks the owner may have created.
DefaultShape == [StartTime |-> <<0>>, EndTime |-> NULL, DeleteDelay |-> 1]
EndShape == [StartTime |-> <<1>>, EndTime |-> <<2>>, DeleteDelay |-> 2]
NetShapes ==
    { DefaultShape, EndShape,
      [StartTime |-> NULL, EndTime |-> <<1>>, DeleteDelay |-> 0],
      [StartTime |-> NULL, EndTime |-> NULL,  DeleteDelay |-> 1] }

NewRequest(id, kind, created, reqtime, exptime, router, net, inv, site) ==
    [Id |-> id, RequestType |-> kind, CreatedTime |-> created,
     RequestTime |-> reqtime, ExpireTime |-> exptime,
     InteriorRouter |-> router, ApplicationNetwork |-> net,
     Invitation |-> inv, Site |-> site, Processing |-> ProcessingDefault]

\* Requests that the onboarding logic created before the pipeline started.
InitialRequests ==
    { NewRequest(1, "memberClaim", -3, <<1>>, NULL, NULL, NULL, <<"inv1">>, NULL),
      NewRequest(2, "vanSite", -2, <<-2>>, NULL, NULL, NULL, NULL, <<"site1">>),
      NewRequest(3, "interiorRouter", -1, NULL, NULL, <<"bb1">>, NULL, NULL, NULL) }

\* ------------------------------------------------------ the site protocol
VERSION == 1
OP_HEARTBEAT == "HB"
OP_GET == "GET"
OP_CLAIM == "CLAIM"

\* JavaScript values: a type tag, a number (number, boolean) and the
\* characters of a string.
Undefined == [t |-> "undefined", n |-> 0, s |-> <<>>]
JSNull == [t |-> "null", n |-> 0, s |-> <<>>]
Num(k) == [t |-> "number", n |-> k, s |-> <<>>]
Bool(b) == [t |-> "boolean", n |-> IF b THEN 1 ELSE 0, s |-> <<>>]
Str(chars) == [t |-> "string", n |-> 0, s |-> chars]

Digits == <<"0", "1", "2", "3", "4", "5", "6", "7", "8", "9">>
IsDigit(c) == \E i \in 1..10 : Digits[i] = c
DigitVal(c) == (CHOOSE i \in 1..10 : Digits[i] = c) - 1

RECURSIVE DecimalValue(_)
DecimalValue(chars) ==
    IF chars = <<>> THEN 0
    ELSE 10 * DecimalValue(SubSeq(chars, 1, Len(chars) - 1))
         + DigitVal(chars[Len(chars)])

\* ToNumber: [nan, n].  The empty string is 0, a string of digits its decimal
\* value, any other string NaN.
ToNumber(v) ==
    CASE v.t = "number" -> [nan |-> FALSE, n |-> v.n]
      [] v.t = "boolean" -> [nan |-> FALSE, n |-> v.n]
      [] v.t = "null" -> [nan |-> FALSE, n |-> 0]
      [] v.t = "string" ->
            IF \A i \in 1..Len(v.s) : IsDigit(v.s[i])
            THEN [nan |-> FALSE, n |-> DecimalValue(v.s)]
            ELSE [nan |-> TRUE, n |-> 0]
      [] OTHER -> [nan |-> TRUE, n |-> 0]

\* x == k for a number k (the abstract equality of body.version != VERSION).
LooseEqualsNumber(x, k) ==
    CASE x.t \in {"undefined", "null"} -> FALSE
      [] OTHER -> ~ToNumber(x).nan /\ ToNumber(x).n = k

Versions ==
    { Undefined, JSNull, Num(0), Num(1), Num(2), Bool(TRUE), Bool(FALSE),
      Str(<<"1">>), Str(<<"2">>), Str(<<"0", "1">>), Str(<<"v", "1">>) }
\* op: <<>> when the field is missing.
Ops == { <<>>, <<OP_HEARTBEAT>>, <<OP_GET>>, <<OP_CLAIM>>, <<"SOLICIT">>, <<"hb">> }
Sites == {"site1"}
ClaimIds == {"inv1", "inv9"}

\* exports.Heartbeat / GetObject / AssertClaim build bodies of this shape;
\* a peer may send any of them.
Bodies ==
    { [version |-> v, op |-> o, site |-> st, hashset |-> "hashes",
       address |-> "", objectname |-> "object", claim |-> c, name |-> "name"] :
          v \in Versions, o \in Ops, st \in Sites, c \in ClaimIds }

Call(handler, args) == [handler |-> handler, args |-> args]

\* DispatchMessage with the break after the OP_GET case missing.
DispatchMessage_fallthrough(body) ==
    IF ~LooseEqualsNumber(body.version, VERSION)
    THEN [calls |-> <<>>, thrown |-> <<"Unsupported protocol version">>]
    ELSE CASE body.op = <<OP_HEARTBEAT>> ->
                [calls |-> <<Call("onHeartbeat",
                                  <<body.site, body.hashset, body.address>>)>>,
                 thrown |-> <<>>]
           [] body.op = <<OP_GET>> ->
                [calls |-> <<Call("onGet", <<body.site, body.objectname>>),
                             Call("onClaim", <<body.claim, body.name>>)>>,
                 thrown |-> <<>>]
           [] body.op = <<OP_CLAIM>> ->
                [calls |-> <<Call("onClaim", <<body.claim, body.name>>)>>,
                 thrown |-> <<>>]
           [] OTHER ->
                [calls |-> <<>>, thrown |-> <<"Unknown op-code">>]

\* exports.DispatchMessage: the handlers it invokes, in order, and the Error
\* it throws (<<>>: none).
DispatchMessage(body) ==
    IF ~LooseEqualsNumber(body.version, VERSION)
    THEN [calls |-> <<>>, thrown |-> <<"Unsupported protocol version">>]
    ELSE CASE body.op = <<OP_HEARTBEAT>> ->
                [calls |-> <<Call("onHeartbeat",
                                  <<body.site, body.hashset, body.address>>)>>,
                 thrown |-> <<>>]
           [] body.op = <<OP_GET>> ->
                [calls |-> <<Call("onGet", <<body.site, body.objectname>>)>>,
                 thrown |-> <<>>]
           [] body.op = <<OP_CLAIM>> ->
                [calls |-> <<Call("onClaim", <<body.claim, body.name>>)>>,
                 thrown |-> <<>>]
           [] OTHER ->
                [calls |-> <<>>, thrown |-> <<"Unknown op-code">>]

\* exports.AssertClaimResponseSuccess / exports.ReponseFailure
AssertClaimResponseSuccess(outgoingLinks, siteClient) ==
    [statusCode |-> 200, statusDescription |-> "OK",
     outgoingLinks |-> outgoingLinks, siteClient |-> siteClient]
ReponseFailure(code, description) ==
    [statusCode |-> code, statusDescription |-> description]

\* The MemberInvitations row the claims are made against.
MaxLimit == 2
InvitationId == "inv1"
\* Fresh invitations: nobody has joined yet.
Invitations ==
    { [JoinDeadline |-> d, InstanceLimit |-> l, InstanceCount |-> 0] :
          d \in {0, 1}, l \in 0..MaxLimit }

\* Admission without the instance limit.
ClaimAdmitted_nolimit(inv, claimId, tnow) ==
    /\ claimId = InvitationId
    /\ tnow <= inv.JoinDeadline

\* The claim handler: admission control on the invitation, the count
\* incremented with the claim.
ClaimAdmitted(inv, claimId, tnow) ==
    /\ claimId = InvitationId
    /\ tnow <= inv.JoinDeadline
    /\ inv.InstanceCount < inv.InstanceLimit

onClaim(inv, claimId, name, tnow) ==
    IF ClaimAdmitted(inv, claimId, tnow)
    THEN [inv |-> [inv EXCEPT !.InstanceCount = @ + 1],
          response |-> AssertClaimResponseSuccess("links", name)]
    ELSE [inv |-> inv,
          response |-> IF claimId # InvitationId
                       THEN ReponseFailure(404, "not-found")
                       ELSE IF tnow > inv.JoinDeadline
                       THEN ReponseFailure(403, "expired")
                       ELSE ReponseFailure(403, "limit-reached")]

\* The handlers of calls, applied in order to the invitation.
RECURSIVE RunHandlers(_, _, _)
RunHandlers(calls, inv, tnow) ==
    IF calls = <<>> THEN [inv |-> inv, responses |-> <<>>]
    ELSE LET c == Head(calls)
             r == IF c.handler = "onClaim"
                  THEN onClaim(inv, c.args[1], c.args[2], tnow)
                  ELSE [inv |-> inv, response |-> [statusCode |-> 200,
                                                   statusDescription |-> "OK"]]
             rest == RunHandlers(Tail(calls), r.inv, tnow)
         IN [inv |-> rest.inv, responses |-> <<r.response>> \o rest.responses]

\* ------------------------------------------------------ the API server
\* The Express response object: the responses that went out on the wire
\* (status code, kind of body, n of {processed: n}), res.statusCode, and the
\* calls that tried to send after the response was sent (they throw
\* ERR_HTTP_HEADERS_SENT).
NewRes == [sent |-> <<>>, status |-> 200, rejected |-> 0]
Text == [kind |-> "text", n |-> 0]
ErrorText == [kind |-> "error", n |-> 0]
Processed(n) == [kind |-> "processed", n |-> n]

\* res.status(code)
Status(r, code) == [r EXCEPT !.status = code]

\* res.send(body) / res.json(body): the response goes out with the current
\* status code; once it has gone out, sending throws.
SendThrows(r) == r.sent # <<>>
Send(r, b) ==
    IF SendThrows(r) THEN [r EXCEPT !.rejected = @ + 1]
    ELSE [r EXCEPT !.sent = <<[status |-> r.status, kind |-> b.kind, n |-> b.n]>>]

\* res.end(): ends the response; nothing happens when it has ended.
End(r) ==
    IF r.sent # <<>> THEN r
    ELSE [r EXCEPT !.sent = <<[status |-> r.status, kind |-> "none", n |-> 0]>>]

\* A request: the handler, whether the record it asks for (and its secret)
\* exists, the first awaited operation that rejects, whether the ROLLBACK of
\* the catch rejects, and for the ingress POST the site, whether the form
\* failed to parse and the entries of fields.ingresses.
FailPoints == {"none", "pool", "begin", "query", "secret", "commit"}
HttpRequest(handler, found, fail, rollbackFails, bsid, err, ingresses) ==
    [handler |-> handler, found |-> found, fail |-> fail,
     rollbackFails |-> rollbackFails, bsid |-> bsid, err |-> err,
     ingresses |-> ingresses]
NoRequest == HttpRequest("none", FALSE, "none", FALSE, "", FALSE, <<>>)

\* ------------------------------------------------------- the backbone
\* At most MaxLinks rows in InterRouterLinks.
MaxLinks == 2
SiteIds == {"s1", "s2"}
\* A REFERENCES column without NOT NULL: NULL or the key of a site.
SiteRefs == {NULL} \cup {<<s>> : s \in SiteIds}
\* Cost integer DEFAULT 1
CostDefault == 1
Costs == {NULL, <<2>>}

\* ------------------------------------------------- backbone access points
AccessPointIds == {"ap1", "ap2"}
\* The ingress keys of a POST and the InteriorSites column each stands for.
IngressKeys == {"skx-manage", "skx-member", "skx-peer", "skx-other"}
\* The sites a call may name; only the first one exists.
BackboneSiteIds == {"site1", "site2"}
Endpoints == {[host |-> "h1", port |-> 443], [host |-> "h2", port |-> 8443]}
Callers == {"c1", "c2"}
NoArgs == [bsid |-> "", key |-> "", hostname |-> "", port |-> 0]

VARIABLES
    controllers, \* the controller instances that are deployed
    now,        \* the store's clock
    networks,   \* committed ApplicationNetworks rows, by Id
    requests,   \* committed CertificateRequests rows
    pc,         \* where each worker of each controller is
    row,        \* the row a pass selected: <<>> or <<Id>>
    txnow,      \* now() of the pass's transaction (its start time)
    ins,        \* rows the pass inserted, not yet committed
    upd,        \* the pass has updated its row, not yet committed
    reschedule_delay, \* the pass's reschedule_delay; while the worker waits
                      \* for its timer, the delay that was given to setTimeout
    held,       \* pooled connections the worker holds
    timers,     \* the worker's setTimeout callbacks that have not fired yet
    nfail,      \* store operations that failed so far
    claimLog,   \* the request Ids of the committed claims, in commit order
    body,       \* the message body that was dispatched last (<<>>: none yet)
    calls,      \* the handler invocations of that dispatch
    thrown,     \* the Error that dispatch threw (<<>>: none)
    invitation, \* the MemberInvitations row
    responses,  \* the responses the handlers of that dispatch produced
    sites,      \* the Ids of the committed InteriorSites rows
    links,      \* the committed InterRouterLinks rows
    siteAccess, \* the access point references of each InteriorSites row
    accessPoints, \* committed BackboneAccessPoints rows, by Id
    apc,        \* where each call of addHostToAccessPoint is
    aargs,      \* the arguments of the call
    access,     \* the access_ref the call's SELECT returned: <<>> or <<Id>>
    pending,    \* the call has sent its UPDATE, not yet committed
    retval,     \* the call's retval
    request,    \* the HTTP request the API server handled last
    res,        \* the Express response object of that request
    txn,        \* how the handler left its transaction
    escaped,    \* an exception left the handler (its promise is rejected)
    apiHeld     \* pooled connections that handlers took and have not released

protoVars == <<body, calls, thrown, invitation, responses>>

backboneVars == <<sites, links>>

accessVars == <<siteAccess, accessPoints, apc, aargs, access, pending, retval>>

handlerVars == <<request, res, txn, escaped, apiHeld>>

apiVars == <<backboneVars, accessVars, handlerVars>>

vars == <<controllers, now, networks, requests, pc, row, txnow, ins, upd,
          reschedule_delay, held, timers, nfail, claimLog, protoVars, apiVars>>

Other(t) == Threads \ {t}

\* ------------------------------------------------------------------- Init
NetRow(s) == [OperStatus |-> OperStatusDefault, StartTime |-> s.StartTime,
              EndTime |-> s.EndTime, DeleteDelay |-> s.DeleteDelay]

\* No pass is under way.
Idle ==
    /\ pc = [t \in Threads |-> "unstarted"]
    /\ row = [t \in Threads |-> <<>>]
    /\ txnow = [t \in Threads |-> 0]
    /\ ins = [t \in Threads |-> {}]
    /\ upd = [t \in Threads |-> FALSE]
    /\ reschedule_delay = [t \in Threads |-> 0]
    /\ held = [t \in Threads |-> 0]
    /\ timers = [t \in Threads |-> 0]
    /\ claimLog = <<>>

\* One controller; the owner has created two networks of any shape.
InitOne ==
    /\ controllers = {"mc1"}
    /\ now = 0
    /\ \E s \in NetShapes :
          networks = [n \in NetIds |-> IF n = "net1" THEN NetRow(s)
                                        ELSE NetRow(EndShape)]
    /\ requests = InitialRequests
    /\ nfail = 0
    /\ Idle

\* Two controllers on one store that holds one network and one request; the
\* store works without failures.
InitTwo ==
    /\ controllers = Procs
    /\ now = MaxTime
    /\ networks = [n \in {"net1"} |-> NetRow(DefaultShape)]
    /\ requests = {r \in InitialRequests : r.RequestType = "vanSite"}
    /\ nfail = MaxFailures
    /\ Idle

\* ---------------------------------------------------- the API's tables
\* The backbone is empty.
NoBackbone ==
    /\ sites = {}
    /\ links = {}

\* No call of addHostToAccessPoint is under way.
NoCalls ==
    /\ apc = [c \in Callers |-> "idle"]
    /\ aargs = [c \in Callers |-> NoArgs]
    /\ access = [c \in Callers |-> <<>>]
    /\ pending = [c \in Callers |-> FALSE]
    /\ retval = [c \in Callers |-> 1]

\* The API server has handled no request.
NoRequests ==
    /\ request = NoRequest
    /\ res = NewRes
    /\ txn = "none"
    /\ escaped = FALSE
    /\ apiHeld = 0

\* The pipeline and the dispatcher do not touch the backbone tables.
NoApi ==
    /\ NoBackbone
    /\ siteAccess = [s \in {} |-> 0]
    /\ accessPoints = [a \in {} |-> 0]
    /\ NoCalls
    /\ NoRequests

\* No message has been dispatched.
NoMessage ==
    /\ body = <<>>
    /\ calls = <<>>
    /\ thrown = <<>>
    /\ responses = <<>>
    /\ invitation = [JoinDeadline |-> 0, InstanceLimit |-> 0, InstanceCount |-> 0]

Init == (InitOne \/ InitTwo) /\ NoMessage /\ NoApi

\* ---------------------------------------------------------------- helpers
\* The per-pass values of the threads in ts are reset to v.
Reset(f, ts, v) == [t \in Threads |-> IF t \in ts THEN v ELSE f[t]]

\* Another transaction holds the row lock of an uncommitted UPDATE.
Locked(t) == \E o \in Other(t) : o[2] = t[2] /\ upd[o] /\ row[o] = row[t]

\* gen_random_uuid(): an Id no row has.
FreshId == CHOOSE i \in 1..(Cardinality(requests) + Cardinality(Threads) + 1) :
              /\ \A r \in requests : r.Id # i
              /\ \A t \in Threads : \A r \in ins[t] : r.Id # i

\* ------------------------------------------------------------ the timers
\* A setTimeout that issues its callback twice.
setTimeout_twice(tm, t) == [tm EXCEPT ![t] = @ + 2]

\* setTimeout(worker, delay): one more callback of the worker is pending.
setTimeout(tm, t) == [tm EXCEPT ![t] = @ + 1]

\* The event loop takes a pending callback of the worker and runs it.
Fires(tm, t) == [tm EXCEPT ![t] = @ - 1]

\* ------------------------------------------------------------- the clock
Tick ==
    /\ now < MaxTime
    /\ now' = now + 1
    /\ UNCHANGED <<apiVars, protoVars, claimLog, controllers, networks, requests, pc, row, txnow, ins, upd, timers,
                   reschedule_delay, held, nfail>>

\* exports.Start: both workers are scheduled.
Start(p) ==
    /\ p \in controllers
    /\ \A w \in Workers : pc[<<p, w>>] = "unstarted"
    /\ pc' = [t \in Threads |-> IF t[1] = p THEN "timer" ELSE pc[t]]
    /\ reschedule_delay' = [t \in Threads |-> IF t[1] = p THEN StartDelay
                                              ELSE reschedule_delay[t]]
    /\ timers' = setTimeout(setTimeout(timers, <<p, WorkerA>>), <<p, WorkerB>>)
    /\ UNCHANGED <<apiVars, protoVars, claimLog, controllers, now, networks, requests, row, txnow, ins, upd, held, nfail>>

\* The timer fires: reschedule_delay = 2000; await db.ClientFromPool();
\* client.query('BEGIN') starts the transaction, which fixes its now().
Begin(t) ==
    /\ pc[t] = "timer"
    /\ timers[t] > 0
    /\ timers' = Fires(timers, t)
    /\ pc' = [pc EXCEPT ![t] = "select"]
    /\ reschedule_delay' = [reschedule_delay EXCEPT ![t] = IdleDelay]
    /\ held' = [held EXCEPT ![t] = held[t] + 1]
    /\ txnow' = [txnow EXCEPT ![t] = now]
    /\ UNCHANGED <<apiVars, protoVars, claimLog, controllers, now, networks, requests, row, ins, upd, nfail>>

\* An unhandled rejection of the async worker function: the runtime either
\* only reports it (crash = FALSE) or ends the whole controller process.
Rejected(t, crash, pcAfter) ==
    [u \in Threads |-> IF crash /\ u[1] = t[1] THEN "stopped"
                       ELSE IF u = t THEN pcAfter ELSE pc[u]]

Crashed(t, crash) == IF crash THEN {u \in Threads : u[1] = t[1]} ELSE {}

\* db.ClientFromPool() rejects: it is awaited outside the try, so neither
\* catch nor finally runs and no setTimeout is issued.
ClientFromPoolFails(t, crash) ==
    /\ pc[t] = "timer"
    /\ timers[t] > 0
    /\ timers' = Reset(Fires(timers, t), Crashed(t, crash), 0)
    /\ nfail < MaxFailures
    /\ nfail' = nfail + 1
    /\ pc' = Rejected(t, crash, "stopped")
    /\ row' = Reset(row, Crashed(t, crash), <<>>)
    /\ ins' = Reset(ins, Crashed(t, crash), {})
    /\ upd' = Reset(upd, Crashed(t, crash), FALSE)
    /\ held' = Reset(held, Crashed(t, crash), 0)
    /\ txnow' = Reset(txnow, Crashed(t, crash), 0)
    /\ UNCHANGED <<apiVars, protoVars, claimLog, controllers, now, networks, requests, reschedule_delay>>

\* A client.query inside the try rejects (BEGIN, when the worker is at its
\* timer; else the query the pass is at): control goes to the catch.
QueryFails(t) ==
    /\ pc[t] \in {"timer", "select", "update", "commit"}
    /\ pc[t] = "timer" => timers[t] > 0
    /\ timers' = IF pc[t] = "timer" THEN Fires(timers, t) ELSE timers
    /\ nfail < MaxFailures
    /\ nfail' = nfail + 1
    /\ pc' = [pc EXCEPT ![t] = "rollback"]
    /\ reschedule_delay' = [reschedule_delay EXCEPT ![t] =
                               IF pc[t] = "timer" THEN IdleDelay ELSE @]
    /\ held' = [held EXCEPT ![t] = IF pc[t] = "timer" THEN @ + 1 ELSE @]
    /\ UNCHANGED <<apiVars, protoVars, claimLog, controllers, now, networks, requests, row, txnow, ins, upd>>

\* ------------------------------------------------ processNewNetworks
\* SELECT * FROM ApplicationNetworks WHERE OperStatus = 'new' LIMIT 1
SelectNewNetwork(S) == {n \in DOMAIN S : S[n].OperStatus = "new"}

\* expire_time without the DeleteDelay.
expire_time_nodelay(n) ==
    IF ~IsNull(n.EndTime)
    THEN getTime(Val(n.EndTime))
    ELSE getTime(Val(n.StartTime)) + IntervalMilliseconds(DefaultCaExpiration)

\* expire_time of the request for network row n (milliseconds).
expire_time(n) ==
    IF ~IsNull(n.EndTime)
    THEN getTime(Val(n.EndTime)) + IntervalMilliseconds(n.DeleteDelay)
    ELSE getTime(Val(n.StartTime)) + IntervalMilliseconds(DefaultCaExpiration)

\* row.starttime.getTime() on a NULL StartTime throws a TypeError.
expire_time_throws(n) == IsNull(n.EndTime) /\ IsNull(n.StartTime)

\* INSERT INTO CertificateRequests(Id, RequestType, CreatedTime, RequestTime,
\*   ExpireTime, ApplicationNetwork) VALUES(gen_random_uuid(), 'vanCA', now(), $1, $2, $3)
InsertVanCA(id, created, nid, n) ==
    NewRequest(id, "vanCA", created, n.StartTime,
               <<ToTimestamp0(expire_time(n))>>, NULL, <<nid>>, NULL, NULL)

\* The SELECT; with a row, the expiration is computed and the INSERT is sent.
processNewNetworks_Select(p) ==
    LET t == <<p, WorkerA>> IN
    /\ pc[t] = "select"
    /\ \/ /\ SelectNewNetwork(networks) = {}
          /\ pc' = [pc EXCEPT ![t] = "commit"]
          /\ UNCHANGED <<row, ins>>
       \/ \E n \in SelectNewNetwork(networks) :
              /\ row' = [row EXCEPT ![t] = <<n>>]
              /\ IF expire_time_throws(networks[n])
                 THEN /\ pc' = [pc EXCEPT ![t] = "rollback"]
                      /\ UNCHANGED ins
                 ELSE /\ ins' = [ins EXCEPT ![t] =
                              {InsertVanCA(FreshId, txnow[t], n, networks[n])}]
                      /\ pc' = [pc EXCEPT ![t] = "update"]
    /\ UNCHANGED <<apiVars, protoVars, claimLog, controllers, now, networks, requests, txnow, upd, reschedule_delay, timers,
                   held, nfail>>

\* UPDATE ApplicationNetworks SET OperStatus = 'cert_request_created' WHERE Id = $1
\* then reschedule_delay = 0.  The UPDATE waits for the row lock.
processNewNetworks_Update(p) ==
    LET t == <<p, WorkerA>> IN
    /\ pc[t] = "update"
    /\ ~Locked(t)
    /\ upd' = [upd EXCEPT ![t] = TRUE]
    /\ reschedule_delay' = [reschedule_delay EXCEPT ![t] = DrainDelay]
    /\ pc' = [pc EXCEPT ![t] = "commit"]
    /\ UNCHANGED <<apiVars, protoVars, claimLog, controllers, now, networks, requests, row, txnow, ins, held, timers, nfail>>

\* ---------------------------------------- processCertificateRequests
\* Eligible without the RequestTime condition.
Eligible_undated(r, tnow) == ~r.Processing

\* WHERE RequestTime <= now() and not Processing
Eligible(r, tnow) ==
    /\ ~IsNull(r.RequestTime)
    /\ Val(r.RequestTime) <= tnow
    /\ ~r.Processing

\* SelectRequest without the ORDER BY.
SelectRequest_unordered(R, tnow) == {r \in R : Eligible(r, tnow)}

\* ... ORDER BY CreatedTime LIMIT 1: the rows the query may return.
SelectRequest(R, tnow) ==
    {r \in R : /\ Eligible(r, tnow)
               /\ \A o \in R : Eligible(o, tnow) => r.CreatedTime <= o.CreatedTime}

processCertificateRequests_Select(p) ==
    LET t == <<p, WorkerB>> IN
    /\ pc[t] = "select"
    /\ \/ /\ SelectRequest(requests, txnow[t]) = {}
          /\ pc' = [pc EXCEPT ![t] = "commit"]
          /\ UNCHANGED row
       \/ \E r \in SelectRequest(requests, txnow[t]) :
              /\ row' = [row EXCEPT ![t] = <<r.Id>>]
              /\ pc' = [pc EXCEPT ![t] = "update"]
    /\ UNCHANGED <<apiVars, protoVars, claimLog, controllers, now, networks, requests, txnow, ins, upd, reschedule_delay, timers,
                   held, nfail>>

\* UPDATE CertificateRequests SET Processing = true WHERE Id = $1
\* then reschedule_delay = 0.  The UPDATE waits for the row lock.
processCertificateRequests_Update(p) ==
    LET t == <<p, WorkerB>> IN
    /\ pc[t] = "update"
    /\ ~Locked(t)
    /\ upd' = [upd EXCEPT ![t] = TRUE]
    /\ reschedule_delay' = [reschedule_delay EXCEPT ![t] = DrainDelay]
    /\ pc' = [pc EXCEPT ![t] = "commit"]
    /\ UNCHANGED <<apiVars, protoVars, claimLog, controllers, now, networks, requests, row, txnow, ins, held, timers, nfail>>

\* ----------------------------------------------------- COMMIT / ROLLBACK
\* The store after the transaction of t commits.
CommitNetworks(t) ==
    IF t[2] = WorkerA /\ upd[t]
    THEN [networks EXCEPT ![Val(row[t])].OperStatus = "cert_request_created"]
    ELSE networks

\* A claim that flips the flag of the selected row.
CommitRequests_toggle(t) ==
    IF t[2] = WorkerB /\ upd[t]
    THEN {IF r.Id = Val(row[t]) THEN [r EXCEPT !.Processing = ~@] ELSE r :
             r \in requests}
    ELSE requests \cup ins[t]

CommitRequests(t) ==
    IF t[2] = WorkerB /\ upd[t]
    THEN {IF r.Id = Val(row[t]) THEN [r EXCEPT !.Processing = TRUE] ELSE r :
             r \in requests}
    ELSE requests \cup ins[t]

\* A rollback that keeps the inserted rows.
RollbackRequests_keeps(t) == requests \cup ins[t]

\* The store after the transaction of t rolls back.
RollbackNetworks(t) == networks
RollbackRequests(t) == requests

\* A pass that never releases its client.
Release_leak(t) == held

\* finally: client.release()
Release(t) == [held EXCEPT ![t] = held[t] - 1]

\* client.query('COMMIT'), then finally: client.release(); setTimeout(worker, reschedule_delay)
Commit(t) ==
    /\ pc[t] = "commit"
    /\ networks' = CommitNetworks(t)
    /\ requests' = CommitRequests(t)
    /\ row' = [row EXCEPT ![t] = <<>>]
    /\ ins' = [ins EXCEPT ![t] = {}]
    /\ upd' = [upd EXCEPT ![t] = FALSE]
    /\ txnow' = [txnow EXCEPT ![t] = 0]
    /\ held' = Release(t)
    /\ pc' = [pc EXCEPT ![t] = "timer"]
    /\ timers' = setTimeout(timers, t)
    /\ claimLog' = IF t[2] = WorkerB /\ upd[t]
                   THEN Append(claimLog, Val(row[t])) ELSE claimLog
    /\ UNCHANGED <<apiVars, protoVars, controllers, now, reschedule_delay, nfail>>

\* catch: client.query('ROLLBACK'); reschedule_delay = 10000; then finally.
Rollback(t) ==
    /\ pc[t] = "rollback"
    /\ networks' = RollbackNetworks(t)
    /\ requests' = RollbackRequests(t)
    /\ row' = [row EXCEPT ![t] = <<>>]
    /\ ins' = [ins EXCEPT ![t] = {}]
    /\ upd' = [upd EXCEPT ![t] = FALSE]
    /\ txnow' = [txnow EXCEPT ![t] = 0]
    /\ reschedule_delay' = [reschedule_delay EXCEPT ![t] = ErrorDelay]
    /\ held' = Release(t)
    /\ pc' = [pc EXCEPT ![t] = "timer"]
    /\ timers' = setTimeout(timers, t)
    /\ UNCHANGED <<apiVars, protoVars, claimLog, controllers, now, nfail>>

\* The ROLLBACK itself rejects (the connection is lost; the server ends the
\* transaction): reschedule_delay keeps its value, finally releases the client
\* and schedules the next pass, then the rejection leaves the worker function.
RollbackFails(t, crash) ==
    /\ pc[t] = "rollback"
    /\ nfail < MaxFailures
    /\ nfail' = nfail + 1
    /\ pc' = Rejected(t, crash, "timer")
    /\ timers' = Reset(setTimeout(timers, t), Crashed(t, crash), 0)
    /\ row' = Reset(row, Crashed(t, crash) \cup {t}, <<>>)
    /\ ins' = Reset(ins, Crashed(t, crash) \cup {t}, {})
    /\ upd' = Reset(upd, Crashed(t, crash) \cup {t}, FALSE)
    /\ held' = Reset(Release(t), Crashed(t, crash), 0)
    /\ txnow' = Reset(txnow, Crashed(t, crash) \cup {t}, 0)
    /\ UNCHANGED <<apiVars, protoVars, claimLog, controllers, now, networks, requests, reschedule_delay>>

\* ------------------------------------------------------------------- Next
Next ==
    \/ Tick
    \/ \E p \in Procs : Start(p)
    \/ \E t \in Threads : Begin(t)
    \/ \E t \in Threads : \E crash \in BOOLEAN : ClientFromPoolFails(t, crash)
    \/ \E t \in Threads : QueryFails(t)
    \/ \E p \in Procs : processNewNetworks_Select(p)
    \/ \E p \in Procs : processNewNetworks_Update(p)
    \/ \E p \in Procs : processCertificateRequests_Select(p)
    \/ \E p \in Procs : processCertificateRequests_Update(p)
    \/ \E t \in Threads : Commit(t)
    \/ \E t \in Threads : Rollback(t)
    \/ \E t \in Threads : \E crash \in BOOLEAN : RollbackFails(t, crash)

Spec == Init /\ [][Next]_vars

\* ------------------------------------------- the pipeline, fairly scheduled
\* One controller whose store operations all succeed.  Timers fire, awaited
\* queries complete and the clock advances: every step that stays enabled is
\* eventually taken.
Pass(t) ==
    \/ Begin(t)
    \/ t[2] = WorkerA /\ processNewNetworks_Select(t[1])
    \/ t[2] = WorkerA /\ processNewNetworks_Update(t[1])
    \/ t[2] = WorkerB /\ processCertificateRequests_Select(t[1])
    \/ t[2] = WorkerB /\ processCertificateRequests_Update(t[1])
    \/ Commit(t)
    \/ Rollback(t)

NextLive ==
    \/ Tick
    \/ \E p \in Procs : Start(p)
    \/ \E t \in Threads : Pass(t)

Fairness ==
    /\ WF_vars(Tick)
    /\ \A p \in Procs : WF_vars(Start(p))
    /\ \A t \in Threads : WF_vars(Pass(t))

InitLive == InitOne /\ NoMessage /\ NoApi

SpecLive == InitLive /\ [][NextLive]_vars /\ Fairness

\* --------------------------------------------- the protocol dispatcher
\* A message arrives: DispatchMessage routes it and the handlers run.
Receive(b) ==
    LET d == DispatchMessage(b)
        h == RunHandlers(d.calls, invitation, now)
    IN
    /\ body' = b
    /\ calls' = d.calls
    /\ thrown' = d.thrown
    /\ invitation' = h.inv
    /\ responses' = h.responses
    /\ UNCHANGED <<controllers, now, networks, requests, pc, row, txnow, ins,
                   upd, reschedule_delay, held, timers, nfail, claimLog, apiVars>>

InitProtocol ==
    /\ controllers = {}
    /\ now = 0
    /\ networks = [n \in {} |-> 0]
    /\ requests = {}
    /\ nfail = 0
    /\ Idle
    /\ body = <<>>
    /\ calls = <<>>
    /\ thrown = <<>>
    /\ responses = <<>>
    /\ invitation \in Invitations
    /\ NoApi

NextProtocol ==
    \/ Tick
    \/ \E b \in Bodies : Receive(b)

SpecProtocol == InitProtocol /\ [][NextProtocol]_vars

\* ------------------------------------------------- the backbone tables
pipelineVars == <<controllers, now, networks, requests, pc, row, txnow, ins,
                  upd, reschedule_delay, held, timers, nfail, claimLog>>

\* No controller is deployed.
NoPipeline ==
    /\ controllers = {}
    /\ now = 0
    /\ networks = [n \in {} |-> 0]
    /\ requests = {}
    /\ nfail = 0
    /\ Idle

\* A REFERENCES InteriorSites column accepts NULL and the Id of a row.
References(ref) == IF IsNull(ref) THEN TRUE ELSE Val(ref) \in sites

\* InterRouterLinks has no key: ctid tells its rows apart.
FreeCtid == CHOOSE i \in 1..MaxLinks : \A l \in links : l.ctid # i

\* INSERT INTO InteriorSites(Id): Id is the primary key.
InsertSite(id) ==
    /\ id \notin sites
    /\ sites' = sites \cup {id}
    /\ UNCHANGED <<links, accessVars, handlerVars, protoVars, pipelineVars>>

\* ON DELETE CASCADE on both columns of InterRouterLinks.
CascadeDelete(id) ==
    {l \in links : /\ l.ListeningInteriorSite # <<id>>
                   /\ l.ConnectingInteriorSite # <<id>>}

\* DELETE FROM InteriorSites WHERE Id = id
DeleteSite(id) ==
    /\ id \in sites
    /\ sites' = sites \ {id}
    /\ links' = CascadeDelete(id)
    /\ UNCHANGED <<accessVars, handlerVars, protoVars, pipelineVars>>

\* INSERT INTO InterRouterLinks: both references are checked, an omitted
\* Cost takes the default.
InsertLink(listening, connecting, cost) ==
    /\ Cardinality(links) < MaxLinks
    /\ References(listening)
    /\ References(connecting)
    /\ links' = links \cup
          {[ctid |-> FreeCtid,
            ListeningInteriorSite |-> listening,
            ConnectingInteriorSite |-> connecting,
            Cost |-> IF IsNull(cost) THEN CostDefault ELSE Val(cost)]}
    /\ UNCHANGED <<sites, accessVars, handlerVars, protoVars, pipelineVars>>

\* DELETE FROM InterRouterLinks, one row.
DeleteLink(ctid) ==
    /\ \E l \in links : l.ctid = ctid
    /\ links' = {l \in links : l.ctid # ctid}
    /\ UNCHANGED <<sites, accessVars, handlerVars, protoVars, pipelineVars>>

InitBackbone ==
    /\ NoPipeline
    /\ NoMessage
    /\ NoApi

NextBackbone ==
    \/ \E id \in SiteIds : InsertSite(id)
    \/ \E id \in SiteIds : DeleteSite(id)
    \/ \E l, c \in SiteRefs : \E cost \in Costs : InsertLink(l, c, cost)
    \/ \E ctid \in 1..MaxLinks : DeleteLink(ctid)

SpecBackbone == InitBackbone /\ [][NextBackbone]_vars

\* --------------------------------------------------- addHostToAccessPoint
\* switch (key): the InteriorSites column of the access point, NULL for the
\* default case, which throws.
AccessColumn(key) ==
    CASE key = "skx-manage" -> <<"ManagementAccess">>
      [] key = "skx-member" -> <<"MemberAccess">>
      [] key = "skx-peer"   -> <<"PeerAccess">>
      [] OTHER -> NULL

\* SELECT ${ref} as access_ref, BackboneAccessPoints.* FROM InteriorSites
\* JOIN BackboneAccessPoints ON ${ref} = BackboneAccessPoints.Id
\* WHERE InteriorSites.Id = $1: the access_ref of the rows of the result.
SelectAccessIn(aps, bsid, column) ==
    {a \in DOMAIN aps :
        /\ bsid \in DOMAIN siteAccess
        /\ siteAccess[bsid][column] = <<a>>}

SelectAccess(bsid, column) == SelectAccessIn(accessPoints, bsid, column)

\* if (access.hostname): NULL and the empty string are falsy.
Truthy(text) == IF IsNull(text) THEN FALSE ELSE Val(text) # ""

\* The access point is refused whatever its lifecycle.
Refused_hostonly(ap) == Truthy(ap.Hostname)

\* The two throws on the selected row.
Refused(ap) == Truthy(ap.Hostname) \/ ap.Lifecycle # "partial"

\* The UPDATE of another call has locked the row.
AccessLocked(c) ==
    \E o \in Callers \ {c} : pending[o] /\ access[o] = access[c]

\* addHostToAccessPoint(bsid, key, hostname, port): retval = 1, the client,
\* BEGIN and the switch on key.
CallAddHost(c, bsid, key, e) ==
    /\ apc[c] \in {"idle", "returned"}
    /\ aargs' = [aargs EXCEPT ![c] = [bsid |-> bsid, key |-> key,
                                      hostname |-> e.host, port |-> e.port]]
    /\ retval' = [retval EXCEPT ![c] = 1]
    /\ access' = [access EXCEPT ![c] = <<>>]
    /\ apc' = [apc EXCEPT ![c] = IF IsNull(AccessColumn(key)) THEN "rollback"
                                 ELSE "select"]
    /\ UNCHANGED <<siteAccess, accessPoints, pending, backboneVars, handlerVars, protoVars,
                   pipelineVars>>

\* The SELECT and the checks on its result.
SelectAccessPoint(c) ==
    LET found == SelectAccess(aargs[c].bsid, Val(AccessColumn(aargs[c].key))) IN
    /\ apc[c] = "select"
    /\ IF found = {}
       THEN /\ apc' = [apc EXCEPT ![c] = "rollback"]
            /\ UNCHANGED access
       ELSE \E a \in found :
              /\ access' = [access EXCEPT ![c] = <<a>>]
              /\ apc' = [apc EXCEPT ![c] = IF Refused(accessPoints[a])
                                           THEN "rollback" ELSE "update"]
    /\ UNCHANGED <<siteAccess, accessPoints, aargs, pending, retval,
                   backboneVars, handlerVars, protoVars, pipelineVars>>

\* UPDATE BackboneAccessPoints SET Hostname = $1, Port=$2, Lifecycle='new'
\* WHERE Id = $3.  The UPDATE waits for the row lock.
UpdateAccessPoint(c) ==
    /\ apc[c] = "update"
    /\ ~AccessLocked(c)
    /\ pending' = [pending EXCEPT ![c] = TRUE]
    /\ apc' = [apc EXCEPT ![c] = "commit"]
    /\ UNCHANGED <<siteAccess, accessPoints, aargs, access, retval,
                   backboneVars, handlerVars, protoVars, pipelineVars>>

\* A commit that writes the hostname and the port and leaves the lifecycle.
CommitAccessPoints_lifecycle(c) ==
    IF pending[c]
    THEN [accessPoints EXCEPT ![Val(access[c])] =
             [Hostname |-> <<aargs[c].hostname>>, Port |-> <<aargs[c].port>>,
              Lifecycle |-> accessPoints[Val(access[c])].Lifecycle]]
    ELSE accessPoints

\* BackboneAccessPoints after the transaction of c commits.
CommitAccessPoints(c) ==
    IF pending[c]
    THEN [accessPoints EXCEPT ![Val(access[c])] =
             [Hostname |-> <<aargs[c].hostname>>, Port |-> <<aargs[c].port>>,
              Lifecycle |-> "new"]]
    ELSE accessPoints

\* COMMIT; finally; return retval
CommitAccess(c) ==
    /\ apc[c] = "commit"
    /\ accessPoints' = CommitAccessPoints(c)
    /\ pending' = [pending EXCEPT ![c] = FALSE]
    /\ apc' = [apc EXCEPT ![c] = "returned"]
    /\ UNCHANGED <<siteAccess, aargs, access, retval, backboneVars, handlerVars, protoVars,
                   pipelineVars>>

\* catch: ROLLBACK; retval = 0; finally; return retval
RollbackAccess(c) ==
    /\ apc[c] = "rollback"
    /\ pending' = [pending EXCEPT ![c] = FALSE]
    /\ retval' = [retval EXCEPT ![c] = 0]
    /\ apc' = [apc EXCEPT ![c] = "returned"]
    /\ UNCHANGED <<siteAccess, accessPoints, aargs, access, backboneVars,
                   handlerVars, protoVars, pipelineVars>>

\* The access point that is still to be configured, and the states the
\* member access point of the site may be in.
PartialAccessPoint == [Hostname |-> NULL, Port |-> NULL, Lifecycle |-> "partial"]
AccessPointShapes ==
    { [Hostname |-> <<"h0">>, Port |-> <<80>>, Lifecycle |-> "partial"],
      [Hostname |-> NULL, Port |-> NULL, Lifecycle |-> "new"] }

\* One backbone site with a management and a member access point and no
\* peer access point.
InitAccess ==
    /\ NoPipeline
    /\ NoMessage
    /\ sites = {"site1"}
    /\ links = {}
    /\ siteAccess = [s \in {"site1"} |->
                        [ManagementAccess |-> <<"ap1">>,
                         MemberAccess |-> <<"ap2">>,
                         PeerAccess |-> NULL]]
    /\ \E shape \in AccessPointShapes :
          accessPoints = [a \in AccessPointIds |->
                             IF a = "ap1" THEN PartialAccessPoint ELSE shape]
    /\ NoCalls
    /\ NoRequests

NextAccess ==
    \/ \E c \in Callers : \E bsid \in BackboneSiteIds : \E key \in IngressKeys :
          \E e \in Endpoints : CallAddHost(c, bsid, key, e)
    \/ \E c \in Callers : SelectAccessPoint(c)
    \/ \E c \in Callers : UpdateAccessPoint(c)
    \/ \E c \in Callers : CommitAccess(c)
    \/ \E c \in Callers : RollbackAccess(c)

SpecAccess == InitAccess /\ [][NextAccess]_vars

\* ------------------------------------------------- the request handlers
\* What a handler has done when its promise settles: the response object,
\* its transaction, whether an exception left it, and the connections it
\* took and did not release.
Outcome(r, t, e, h) == [res |-> r, txn |-> t, escaped |-> e, held |-> h]

\* The body the three list handlers share: ClientFromPool, one SELECT,
\* res.send, res.status(200).end(), client.release(), with no try.
ListRows(fail) ==
    IF fail = "pool" THEN Outcome(NewRes, "none", TRUE, 0)
    ELSE IF fail = "query" THEN Outcome(NewRes, "none", TRUE, 1)
    ELSE Outcome(End(Status(Send(NewRes, Text), 200)), "none", FALSE, 0)

listInvitations(fail) == ListRows(fail)
listBackbones(fail) == ListRows(fail)
listBackboneSites(fail) == ListRows(fail)

\* fetchInvitationKube: no transaction and no try; the 404 of the else.
fetchInvitationKube(found, fail) ==
    IF fail = "pool" THEN Outcome(NewRes, "none", TRUE, 0)
    ELSE IF fail = "query" THEN Outcome(NewRes, "none", TRUE, 1)
    ELSE IF ~found THEN Outcome(End(Status(NewRes, 404)), "none", FALSE, 0)
    ELSE IF fail = "secret" THEN Outcome(NewRes, "none", TRUE, 1)
    ELSE Outcome(End(Status(Send(NewRes, Text), 200)), "none", FALSE, 0)

\* catch (err) { await client.query('ROLLBACK'); res.send(err...);
\* res.status(404).end(); } finally { client.release(); }
Catch(r, rollbackFails) ==
    IF rollbackFails THEN Outcome(r, "aborted", TRUE, 0)
    ELSE IF SendThrows(r) THEN Outcome(Send(r, ErrorText), "rolledback", TRUE, 0)
    ELSE Outcome(End(Status(Send(r, ErrorText), 404)), "rolledback", FALSE, 0)

\* fetchBackboneSiteKube: BEGIN, SELECT, LoadSecret, res.send,
\* res.status(200).end(), COMMIT; throws when the row is not found.
fetchBackboneSiteKube(found, fail, rollbackFails) ==
    IF fail = "pool" THEN Outcome(NewRes, "none", TRUE, 0)
    ELSE IF fail \in {"begin", "query"} \/ ~found \/ fail = "secret"
    THEN Catch(NewRes, rollbackFails)
    ELSE LET r == End(Status(Send(NewRes, Text), 200)) IN
         IF fail = "commit" THEN Catch(r, rollbackFails)
         ELSE Outcome(r, "committed", FALSE, 0)

\* fetchBackboneLinksIncomingKube: the same course, the site row in place of
\* the secret row, the secrets of its access points loaded in the loop.
fetchBackboneLinksIncomingKube(found, fail, rollbackFails) ==
    IF fail = "pool" THEN Outcome(NewRes, "none", TRUE, 0)
    ELSE IF fail \in {"begin", "query"} \/ ~found \/ fail = "secret"
    THEN Catch(NewRes, rollbackFails)
    ELSE LET r == End(Status(Send(NewRes, Text), 200)) IN
         IF fail = "commit" THEN Catch(r, rollbackFails)
         ELSE Outcome(r, "committed", FALSE, 0)

\* fetchBackboneLinksOutgoingKube: any number of rows is a result.
fetchBackboneLinksOutgoingKube(fail, rollbackFails) ==
    IF fail = "pool" THEN Outcome(NewRes, "none", TRUE, 0)
    ELSE IF fail \in {"begin", "query"} THEN Catch(NewRes, rollbackFails)
    ELSE LET r == End(Status(Send(NewRes, Text), 200)) IN
         IF fail = "commit" THEN Catch(r, rollbackFails)
         ELSE Outcome(r, "committed", FALSE, 0)

\* ------------------------------------------------- postBackboneIngress
\* The forms a POST may carry: the entries of fields.ingresses in the order
\* of Object.entries; <<>> when fields.ingresses is not an object or is empty.
Ingress(key, host, port) == [key |-> key, host |-> host, port |-> port]
IngressForms ==
    { <<>>,
      <<Ingress("skx-manage", "h1", 443)>>,
      <<Ingress("skx-other", "h1", 443), Ingress("skx-manage", "h2", 8443)>>,
      <<Ingress("skx-manage", "h1", 443), Ingress("skx-member", "h2", 8443)>>,
      <<Ingress("skx-peer", "h1", 443), Ingress("skx-manage", "h1", 443)>> }

\* addHostToAccessPoint run from its call to its return with no other
\* transaction in between: the table afterwards, retval, and whether the
\* call ended with an exception instead of returning.
addHostToAccessPoint(aps, bsid, key, hostname, port, fail, rollbackFails) ==
    LET column == AccessColumn(key)
        found == IF IsNull(column) THEN {}
                 ELSE SelectAccessIn(aps, bsid, Val(column))
        updates == /\ fail \notin {"begin", "query", "commit"}
                   /\ found # {}
                   /\ \A a \in found : ~Refused(aps[a])
    IN
    IF fail = "pool" THEN [aps |-> aps, retval |-> 1, escaped |-> TRUE]
    ELSE IF updates
    THEN [aps |-> [a \in DOMAIN aps |->
                      IF a \in found
                      THEN [Hostname |-> <<hostname>>, Port |-> <<port>>,
                            Lifecycle |-> "new"]
                      ELSE aps[a]],
          retval |-> 1, escaped |-> FALSE]
    ELSE IF rollbackFails THEN [aps |-> aps, retval |-> 1, escaped |-> TRUE]
    ELSE [aps |-> aps, retval |-> 0, escaped |-> FALSE]

\* for (const [key, obj] of Object.entries(fields.ingresses))
\*     count += await addHostToAccessPoint(bsid, key, obj.host, obj.port);
\* The failure, if any, meets the first call.
RECURSIVE ApplyIngresses(_, _, _, _, _, _)
ApplyIngresses(aps, bsid, entries, count, fail, rollbackFails) ==
    IF entries = <<>> THEN [aps |-> aps, count |-> count, escaped |-> FALSE]
    ELSE LET e == Head(entries)
             call == addHostToAccessPoint(aps, bsid, e.key, e.host, e.port,
                                          fail, rollbackFails)
         IN IF call.escaped
            THEN [aps |-> call.aps, count |-> count, escaped |-> TRUE]
            ELSE ApplyIngresses(call.aps, bsid, Tail(entries),
                                count + call.retval, "none", FALSE)

\* The callback of form.parse: the 400 on err, the loop over the ingresses,
\* res.json({processed: count}).
postBackboneIngress(aps, bsid, err, ingresses, fail, rollbackFails) ==
    LET r == IF err THEN Send(Status(NewRes, 400), ErrorText) ELSE NewRes
        done == ApplyIngresses(aps, bsid, ingresses, 0, fail, rollbackFails)
    IN [aps |-> done.aps,
        outcome |-> IF done.escaped THEN Outcome(r, "none", TRUE, 0)
                    ELSE Outcome(Send(r, Processed(done.count)), "none",
                                 SendThrows(r), 0)]

\* ------------------------------------------------------ the API server
MaxLeaks == 2

\* The promise of the handler of request q has settled.
Handled(q, o, aps) ==
    /\ apiHeld < MaxLeaks
    /\ request' = q
    /\ res' = o.res
    /\ txn' = o.txn
    /\ escaped' = o.escaped
    /\ apiHeld' = apiHeld + o.held
    /\ accessPoints' = aps
    /\ UNCHANGED <<siteAccess, apc, aargs, access, pending, retval,
                   backboneVars, protoVars, pipelineVars>>

Get(handler, found, fail, rollbackFails) ==
    HttpRequest(handler, found, fail, rollbackFails, "", FALSE, <<>>)

GetInvitations(fail) ==
    /\ fail \in FailPoints
    /\ Handled(Get("listInvitations", TRUE, fail, FALSE),
            listInvitations(fail), accessPoints)

GetBackbones(fail) ==
    /\ fail \in FailPoints
    /\ Handled(Get("listBackbones", TRUE, fail, FALSE),
            listBackbones(fail), accessPoints)

GetBackboneSites(fail) ==
    /\ fail \in FailPoints
    /\ Handled(Get("listBackboneSites", TRUE, fail, FALSE),
            listBackboneSites(fail), accessPoints)

GetInvitationKube(found, fail) ==
    /\ fail \in FailPoints
    /\ Handled(Get("fetchInvitationKube", found, fail, FALSE),
            fetchInvitationKube(found, fail), accessPoints)

GetBackboneSiteKube(found, fail, rollbackFails) ==
    /\ fail \in FailPoints
    /\ Handled(Get("fetchBackboneSiteKube", found, fail, rollbackFails),
            fetchBackboneSiteKube(found, fail, rollbackFails), accessPoints)

GetBackboneLinksIncomingKube(found, fail, rollbackFails) ==
    /\ fail \in FailPoints
    /\ Handled(Get("fetchBackboneLinksIncomingKube", found, fail, rollbackFails),
            fetchBackboneLinksIncomingKube(found, fail, rollbackFails),
            accessPoints)

GetBackboneLinksOutgoingKube(fail, rollbackFails) ==
    /\ fail \in FailPoints
    /\ Handled(Get("fetchBackboneLinksOutgoingKube", TRUE, fail, rollbackFails),
            fetchBackboneLinksOutgoingKube(fail, rollbackFails), accessPoints)

\* A form that failed to parse has no fields.
PostBackboneIngress(bsid, err, ingresses, fail, rollbackFails) ==
    LET post == postBackboneIngress(accessPoints, bsid, err, ingresses, fail,
                                    rollbackFails) IN
    /\ err => ingresses = <<>>
    /\ Handled(HttpRequest("postBackboneIngress", TRUE, fail, rollbackFails,
                           bsid, err, ingresses),
               post.outcome, post.aps)

InitApi == InitAccess

NextApi ==
    \/ \E fail \in {"none", "pool", "query"} : GetInvitations(fail)
    \/ \E fail \in {"none", "pool", "query"} : GetBackbones(fail)
    \/ \E fail \in {"none", "pool", "query"} : GetBackboneSites(fail)
    \/ \E found \in BOOLEAN : \E fail \in {"none", "pool", "query", "secret"} :
          GetInvitationKube(found, fail)
    \/ \E found, rollbackFails \in BOOLEAN : \E fail \in FailPoints :
          GetBackboneSiteKube(found, fail, rollbackFails)
    \/ \E found, rollbackFails \in BOOLEAN : \E fail \in FailPoints :
          GetBackboneLinksIncomingKube(found, fail, rollbackFails)
    \/ \E rollbackFails \in BOOLEAN : \E fail \in FailPoints \ {"secret"} :
          GetBackboneLinksOutgoingKube(fail, rollbackFails)
    \/ \E bsid \in BackboneSiteIds : \E err, rollbackFails \in BOOLEAN :
          \E ingresses \in IngressForms :
             \E fail \in {"none", "pool", "query", "commit"} :
                PostBackboneIngress(bsid, err, ingresses, fail, rollbackFails)

SpecApi == InitApi /\ [][NextApi]_vars

\* =================================================================== claims
BThreads == {t \in Threads : t[2] = WorkerB}
AThreads == {t \in Threads : t[2] = WorkerA}
RequestById(id) == CHOOSE r \in requests : r.Id = id
Occurrences(log, id) == Cardinality({i \in 1..Len(log) : log[i] = id})

\* C1 - At-most-one-in-flight: of the passes of the fulfillment worker that
\* run concurrently, exactly one performs the claim transition of a request
\* row: no row is claimed by two committed passes, and no pass has flagged a
\* row that another pass has already claimed.
C1_AtMostOneInFlight ==
    /\ \A r \in requests : Occurrences(claimLog, r.Id) <= 1
    /\ \A t \in BThreads : upd[t] => ~RequestById(Val(row[t])).Processing

\* C2 - FIFO among eligible: a pass of the fulfillment worker selects a row
\* with the smallest CreatedTime among the committed rows that are eligible
\* at that pass (RequestTime <= now(), not Processing), so an eligible row is
\* selected only when every eligible row created before it has been claimed.
SelectsOldestEligible(t) ==
    (pc[t] = "select" /\ pc'[t] = "update") =>
        \E r \in requests :
            /\ r.Id = Val(row'[t])
            /\ ~IsNull(r.RequestTime) /\ Val(r.RequestTime) <= txnow[t]
            /\ ~r.Processing
            /\ \A o \in requests :
                  (~IsNull(o.RequestTime) /\ Val(o.RequestTime) <= txnow[t]
                   /\ ~o.Processing) => r.CreatedTime <= o.CreatedTime

C2_FifoAmongEligible ==
    [][\A t \in BThreads : SelectsOldestEligible(t)]_vars

\* Three requests with CreatedTime T1 < T2 < T3, the first dated no earlier
\* than the others, have been claimed in that order.
C2_Witness ==
    /\ Len(claimLog) = 3
    /\ RequestById(claimLog[1]).CreatedTime < RequestById(claimLog[2]).CreatedTime
    /\ RequestById(claimLog[2]).CreatedTime < RequestById(claimLog[3]).CreatedTime
    /\ Val(RequestById(claimLog[2]).RequestTime) <= Val(RequestById(claimLog[1]).RequestTime)
    /\ Val(RequestById(claimLog[3]).RequestTime) <= Val(RequestById(claimLog[1]).RequestTime)

\* C3 - Future-dated exclusion: a request whose RequestTime is later than the
\* current time is neither the row a pass of the fulfillment worker has
\* selected nor flagged Processing.
FutureDated(r) == ~IsNull(r.RequestTime) /\ Val(r.RequestTime) > now

C3_FutureDatedExclusion ==
    \A r \in requests :
        FutureDated(r) =>
            /\ ~r.Processing
            /\ \A t \in BThreads : row[t] # <<r.Id>>

\* The oldest request is future-dated and a pass has selected a younger one.
C3_Witness ==
    \E r \in requests :
        /\ FutureDated(r)
        /\ \E t \in BThreads :
              /\ pc[t] = "update"
              /\ RequestById(Val(row[t])).CreatedTime > r.CreatedTime

\* C4 - Rollback atomicity: the step in which a pass fails, and the ROLLBACK
\* that follows, leave the committed store as it was; while the intake worker
\* is in its catch the selected network is still 'new' and the request row it
\* inserted does not exist, so the network is selectable again.
FailureStep(t) ==
    \/ pc[t] \in {"timer", "select", "update", "commit"} /\ pc'[t] = "rollback"
    \/ pc[t] = "rollback" /\ pc'[t] # "rollback"

FailedIntakeLeftNothing ==
    \A t \in AThreads :
        (pc[t] = "rollback" /\ row[t] # <<>>) =>
            /\ Val(row[t]) \in SelectNewNetwork(networks)
            /\ \A r \in ins[t] : \A c \in requests : c.Id # r.Id
            /\ \A c \in requests : c.ApplicationNetwork # row[t]

C4_RollbackAtomicity ==
    /\ []FailedIntakeLeftNothing
    /\ [][\A t \in Threads :
             FailureStep(t) => (networks' = networks /\ requests' = requests)]_vars

\* The intake worker failed after its INSERT and before its UPDATE.
C4_Witness ==
    \E t \in AThreads : pc[t] = "rollback" /\ ins[t] # {} /\ ~upd[t]

\* C8 - Expiration computation: the vanCA request of a network has RequestTime
\* = the network's StartTime and ExpireTime = EndTime + DeleteDelay when the
\* network has an EndTime, StartTime + the default CA lifetime when not.
ExpectedExpireTime(n) ==
    IF IsNull(n.EndTime) THEN Val(n.StartTime) + DefaultCaExpiration
    ELSE Val(n.EndTime) + n.DeleteDelay

C8_ExpirationComputation ==
    \A r \in requests \cup UNION {ins[t] : t \in Threads} :
        r.RequestType = "vanCA" =>
            LET n == networks[Val(r.ApplicationNetwork)] IN
            /\ r.RequestTime = n.StartTime
            /\ r.ExpireTime = <<ExpectedExpireTime(n)>>

\* Both kinds of network have been taken in.
C8_Witness ==
    /\ \E r \in requests : /\ r.RequestType = "vanCA"
                           /\ IsNull(networks[Val(r.ApplicationNetwork)].EndTime)
    /\ \E r \in requests : /\ r.RequestType = "vanCA"
                           /\ ~IsNull(networks[Val(r.ApplicationNetwork)].EndTime)

\* C9 - Network intake invariant: every network has at most one vanCA
\* request, has exactly one when its status is no longer 'new', and that
\* request has only the ApplicationNetwork subject set.
RequestsFor(n) == {r \in requests : r.ApplicationNetwork = <<n>>}

C9_NetworkIntake ==
    \A n \in DOMAIN networks :
        /\ Cardinality(RequestsFor(n)) <= 1
        /\ networks[n].OperStatus # "new" => Cardinality(RequestsFor(n)) = 1
        /\ \A r \in RequestsFor(n) :
              /\ r.RequestType = "vanCA"
              /\ IsNull(r.InteriorRouter) /\ IsNull(r.Invitation) /\ IsNull(r.Site)
              /\ networks[n].OperStatus = "cert_request_created"

\* C10 - Loop continuation: a worker that has been started is always either
\* in a pass or scheduled for its next pass; no failure ends its loop.
C10_LoopContinuation ==
    \A t \in Threads : pc[t] # "stopped"

\* C11 - Reschedule delay by outcome: the delay a pass of either worker gives
\* to its next scheduling is 0 when it processed a row and committed, 2000 ms
\* when it found no row, and 10000 ms when a step of the pass failed.
PassEnds(t) == pc[t] \in {"commit", "rollback"} /\ pc'[t] = "timer"

DelayByOutcome(t) ==
    PassEnds(t) =>
        reschedule_delay'[t] =
            IF pc[t] = "rollback" THEN ErrorDelay
            ELSE IF upd[t] THEN DrainDelay
            ELSE IdleDelay

C11_RescheduleDelay ==
    [][\A t \in Threads : DelayByOutcome(t)]_vars

\* C12 - Guaranteed release in the pipeline: a worker holds exactly one
\* connection while a pass is under way and none while it waits for its timer;
\* the step that ends a pass, on the success path, the no-row path and every
\* error path, releases the one connection the pass acquired.
InPass(t) == pc[t] \in {"select", "update", "commit", "rollback"}

ReleasedOnce(t) ==
    (InPass(t) /\ ~InPass(t)') => (held[t] = 1 /\ held'[t] = 0)

C12_GuaranteedRelease ==
    /\ [](\A t \in Threads : held[t] = IF InPass(t) THEN 1 ELSE 0)
    /\ [][\A t \in Threads : ReleasedOnce(t)]_vars

\* One worker waits for its timer after a failed pass and the other after a
\* pass that processed a row; neither holds a connection.
C12_Witness ==
    \E t, u \in Threads :
        /\ pc[t] = "timer" /\ reschedule_delay[t] = ErrorDelay /\ held[t] = 0
        /\ pc[u] = "timer" /\ reschedule_delay[u] = DrainDelay /\ held[u] = 0

\* C14 - Request fulfillment: every request the fulfillment worker has claimed
\* (Processing = true) is eventually fulfilled, the last step of which deletes
\* the request row.
RequestIds == 1..(Cardinality(InitialRequests) + Cardinality(NetIds))
Claimed(id) == \E r \in requests : r.Id = id /\ r.Processing
Fulfilled(id) == \A r \in requests : r.Id # id

C14_RequestFulfillment ==
    \A id \in RequestIds : Claimed(id) ~> Fulfilled(id)

\* C15 - No lease release: a request that has Processing = true has it in
\* every later state and no pass selects it; the step that commits a claim
\* changes nothing in the store but the Processing flag of the selected row.
FlagKept ==
    \A r \in requests : r.Processing => r \in requests'

NotSelectedAgain(t) ==
    (pc[t] = "select" /\ pc'[t] = "update") =>
        ~RequestById(Val(row'[t])).Processing

ClaimCommits(t) == pc[t] = "commit" /\ pc'[t] = "timer" /\ upd[t]

ClaimChangesOnlyFlag(t) ==
    ClaimCommits(t) =>
        /\ networks' = networks
        /\ requests' = {IF r.Id = Val(row[t]) THEN [r EXCEPT !.Processing = TRUE]
                        ELSE r : r \in requests}

C15_NoLeaseRelease ==
    [][/\ FlagKept
       /\ \A t \in BThreads : NotSelectedAgain(t) /\ ClaimChangesOnlyFlag(t)]_vars

\* Two requests have been claimed one after the other and both are still
\* flagged while a later pass is past its SELECT.
C15_Witness ==
    /\ Len(claimLog) >= 2
    /\ claimLog[1] # claimLog[2]
    /\ Claimed(claimLog[1]) /\ Claimed(claimLog[2])
    /\ \E t \in BThreads : pc[t] \in {"update", "commit"}

\* C16 - Overtaking by eligibility: a request created earlier whose RequestTime
\* is in the future is overtaken by a later-created eligible request; once its
\* RequestTime has passed, a pass selects it before any unclaimed eligible
\* request created after it.
Overtaken(r) ==
    /\ ~r.Processing
    /\ ~IsNull(r.RequestTime)
    /\ \E o \in requests : o.Processing /\ o.CreatedTime > r.CreatedTime

SelectsOvertakenFirst(t) ==
    (pc[t] = "select" /\ pc'[t] \in {"update", "commit"}) =>
        \A r \in requests :
            (Overtaken(r) /\ Val(r.RequestTime) <= txnow[t]) =>
                /\ row'[t] # <<>>
                /\ RequestById(Val(row'[t])).CreatedTime <= r.CreatedTime

C16_OvertakingByEligibility ==
    [][\A t \in BThreads : SelectsOvertakenFirst(t)]_vars

\* The request created second was claimed first, while the one created first
\* was future-dated; that one was claimed next, ahead of an eligible request
\* created after it that is still unclaimed.
C16_Witness ==
    /\ Len(claimLog) = 2
    /\ RequestById(claimLog[2]).CreatedTime < RequestById(claimLog[1]).CreatedTime
    /\ Val(RequestById(claimLog[2]).RequestTime) > Val(RequestById(claimLog[1]).RequestTime)
    /\ \E r \in requests :
          /\ Eligible(r, now)
          /\ r.CreatedTime > RequestById(claimLog[2]).CreatedTime

\* C19 - Absent RequestTime means eligible now: a request with no RequestTime
\* and Processing false counts as eligible, so the SELECT of a pass of the
\* fulfillment worker returns the oldest row among those that are unclaimed
\* and either undated or dated no later than now().
EligibleOrUndated(r, tnow) ==
    /\ ~r.Processing
    /\ IsNull(r.RequestTime) \/ Val(r.RequestTime) <= tnow

SelectsUndatedInFifoOrder(t) ==
    (pc[t] = "select" /\ pc'[t] \in {"update", "commit"}) =>
        \A r \in requests :
            EligibleOrUndated(r, txnow[t]) =>
                /\ row'[t] # <<>>
                /\ RequestById(Val(row'[t])).CreatedTime <= r.CreatedTime

C19_AbsentRequestTimeEligible ==
    [][\A t \in BThreads : SelectsUndatedInFifoOrder(t)]_vars

\* C20 - End-to-end intake liveness: with both workers scheduled fairly and no
\* store failure, every network that is 'new' eventually is
\* 'cert_request_created', and its vanCA request is eventually claimed once
\* the network's StartTime has passed, and not before.
TakenIn(n) == networks[n].OperStatus = "cert_request_created"

Started(n) == ~IsNull(networks[n].StartTime) /\ Val(networks[n].StartTime) <= now

VanCAClaimed(n) == \E r \in RequestsFor(n) : r.Processing

C20_IntakeLiveness ==
    /\ \A n \in NetIds : (networks[n].OperStatus = "new") ~> TakenIn(n)
    /\ \A n \in NetIds : (RequestsFor(n) # {} /\ Started(n)) ~> VanCAClaimed(n)
    /\ [](\A n \in NetIds : VanCAClaimed(n) => Started(n))

\* ------------------------------------------------------- protocol claims
Dispatched == DOMAIN body # {}

\* C5 - Protocol version gate: a message whose version is not the number 1
\* makes DispatchMessage throw the version error and invoke no handler.
C5_VersionGate ==
    (Dispatched /\ body.version # Num(VERSION)) =>
        /\ thrown = <<"Unsupported protocol version">>
        /\ calls = <<>>

\* C6 - Dispatch routing: a version-1 message invokes exactly the handler of
\* its op, once, with the fields of that op; any other op invokes no handler
\* and throws the unknown-op error.
C6_DispatchRouting ==
    (Dispatched /\ body.version = Num(VERSION)) =>
        /\ body.op = <<OP_HEARTBEAT>> =>
              /\ calls = <<Call("onHeartbeat",
                                <<body.site, body.hashset, body.address>>)>>
              /\ thrown = <<>>
        /\ body.op = <<OP_GET>> =>
              /\ calls = <<Call("onGet", <<body.site, body.objectname>>)>>
              /\ thrown = <<>>
        /\ body.op = <<OP_CLAIM>> =>
              /\ calls = <<Call("onClaim", <<body.claim, body.name>>)>>
              /\ thrown = <<>>
        /\ body.op \notin {<<OP_HEARTBEAT>>, <<OP_GET>>, <<OP_CLAIM>>} =>
              /\ calls = <<>>
              /\ thrown = <<"Unknown op-code">>

\* A version-1 CLAIM has been routed to onClaim.
C6_Witness ==
    /\ Dispatched
    /\ body.version = Num(VERSION)
    /\ body.op = <<OP_CLAIM>>
    /\ Len(calls) = 1

\* C7 - Invitation admission control: a CLAIM received when InstanceCount =
\* InstanceLimit or after JoinDeadline fails and leaves InstanceCount as it
\* was; a CLAIM that succeeds increments InstanceCount by exactly 1; and
\* InstanceCount never exceeds InstanceLimit.
IsClaim(b) == b.version = Num(VERSION) /\ b.op = <<OP_CLAIM>>
Succeeded(rs) == Len(rs) = 1 /\ rs[1].statusCode = 200

ClaimStep ==
    (body' # body \/ responses' # responses \/ invitation' # invitation)
    /\ DOMAIN body' # {} /\ IsClaim(body')

AdmissionControl ==
    ClaimStep =>
        /\ Len(responses') = 1
        /\ (invitation.InstanceCount = invitation.InstanceLimit
            \/ now > invitation.JoinDeadline) =>
                (~Succeeded(responses') /\ invitation' = invitation)
        /\ Succeeded(responses') =>
                invitation' = [invitation EXCEPT !.InstanceCount = @ + 1]
        /\ ~Succeeded(responses') => invitation' = invitation

C7_InvitationAdmission ==
    /\ [](invitation.InstanceCount <= invitation.InstanceLimit)
    /\ [][AdmissionControl]_vars

\* The invitation is used up by successful claims and the last CLAIM failed.
C7_Witness ==
    /\ Dispatched /\ IsClaim(body)
    /\ invitation.InstanceLimit > 0
    /\ invitation.InstanceCount = invitation.InstanceLimit
    /\ ~Succeeded(responses)

\* C13 - Protocol errors are contained: a message with a bad version or an
\* unknown op is answered with a failure response (status code and
\* description); no exception leaves DispatchMessage.
ProtocolError(b) ==
    \/ b.version # Num(VERSION)
    \/ b.op \notin {<<OP_HEARTBEAT>>, <<OP_GET>>, <<OP_CLAIM>>}

C13_ProtocolErrorsContained ==
    (Dispatched /\ ProtocolError(body)) =>
        /\ thrown = <<>>
        /\ Len(responses) = 1
        /\ responses[1].statusCode # 200

\* ------------------------------------------------------- backbone claims
\* C17 - Backbone graph integrity: both endpoints of every InterRouterLink
\* refer to existing InteriorSites, and deleting a site removes every link
\* that has it as either endpoint.
RefersToSite(ref) == ~IsNull(ref) /\ Val(ref) \in sites

NoLinkOf(id) ==
    \A l \in links' : /\ l.ListeningInteriorSite # <<id>>
                      /\ l.ConnectingInteriorSite # <<id>>

C17_BackboneGraphIntegrity ==
    /\ [](\A l \in links : /\ RefersToSite(l.ListeningInteriorSite)
                           /\ RefersToSite(l.ConnectingInteriorSite))
    /\ [][\A id \in SiteIds : (id \in sites /\ id \notin sites') => NoLinkOf(id)]_vars

\* ---------------------------------------------------- access point claims
\* C18 - Access-point configuration errors leave no mutation: a call of
\* addHostToAccessPoint with an invalid ingress key, for a site with no
\* referenced access point, for an access point that has a hostname or for
\* one whose lifecycle is not 'partial' goes to its catch without having
\* written, returns 0 and leaves BackboneAccessPoints as it was.
ValidKeys == {"skx-manage", "skx-member", "skx-peer"}

ColumnOf(key) ==
    IF key = "skx-manage" THEN "ManagementAccess"
    ELSE IF key = "skx-member" THEN "MemberAccess" ELSE "PeerAccess"

\* The access point the arguments of call c refer to: <<>> when none.
Referenced(c) ==
    IF aargs[c].bsid \in sites
    THEN siteAccess[aargs[c].bsid][ColumnOf(aargs[c].key)]
    ELSE <<>>

ConfigurationError(c) ==
    \/ aargs[c].key \notin ValidKeys
    \/ Referenced(c) = <<>>
    \/ accessPoints[Val(Referenced(c))].Hostname # <<>>
    \/ accessPoints[Val(Referenced(c))].Lifecycle # "partial"

ErrorIsCaught(c) ==
    /\ (apc[c] \in {"idle", "returned"} /\ apc'[c] \notin {"idle", "returned"}
        /\ aargs'[c].key \notin ValidKeys) => apc'[c] = "rollback"
    /\ (apc[c] = "select" /\ apc'[c] # "select" /\ ConfigurationError(c))
          => apc'[c] = "rollback"

ErrorReturnsZero(c) ==
    (apc[c] = "rollback" /\ apc'[c] = "returned") =>
        /\ retval'[c] = 0
        /\ accessPoints' = accessPoints

C21_HandlersRelease == apiHeld = 0

\* C22 - Not-found is reported as a failure status: when the record asked of
\* fetchBackboneSiteKube, fetchBackboneLinksIncomingKube or
\* fetchInvitationKube does not exist, or a query of
\* fetchBackboneLinksOutgoingKube fails, the caller receives exactly one
\* response, its status is 404, and the transaction is rolled back.
NotFoundRequest ==
    /\ request.fail = "none" /\ ~request.rollbackFails
    /\ ~request.found
    /\ request.handler \in {"fetchBackboneSiteKube",
                            "fetchBackboneLinksIncomingKube",
                            "fetchInvitationKube"}

FailedOutgoingRequest ==
    /\ request.handler = "fetchBackboneLinksOutgoingKube"
    /\ request.fail \in {"begin", "query"} /\ ~request.rollbackFails

C22_NotFoundIs404 ==
    (NotFoundRequest \/ FailedOutgoingRequest) =>
        /\ Len(res.sent) = 1
        /\ res.sent[1].status = 404
        /\ request.handler # "fetchInvitationKube" => txn = "rolledback"

\* C23 - Effect of a successful access-point configuration: a call of
\* addHostToAccessPoint returns 1 only for the access point its key selects
\* (skx-manage: ManagementAccess, skx-member: MemberAccess, skx-peer:
\* PeerAccess) and only when the row it read has no hostname and lifecycle
\* 'partial'; its commit sets that row's Hostname and Port to the arguments
\* and its Lifecycle to 'new' and changes no other row.
ProceedsOnlyWhenPartial(c) ==
    (apc[c] = "select" /\ apc'[c] = "update") =>
        /\ aargs[c].key \in ValidKeys
        /\ access'[c] = Referenced(c)
        /\ access'[c] # <<>>
        /\ accessPoints[Val(access'[c])].Hostname = NULL
        /\ accessPoints[Val(access'[c])].Lifecycle = "partial"

ReturnsOneOnlyByCommit(c) ==
    (apc[c] # "returned" /\ apc'[c] = "returned" /\ retval'[c] = 1) =>
        (apc[c] = "commit" /\ pending[c])

CommitSetsOnlyThatRow(c) ==
    (apc[c] = "commit" /\ apc'[c] = "returned") =>
        /\ retval'[c] = 1
        /\ accessPoints' =
              [accessPoints EXCEPT ![Val(access[c])] =
                  [Hostname |-> <<aargs[c].hostname>>,
                   Port |-> <<aargs[c].port>>, Lifecycle |-> "new"]]
        /\ siteAccess' = siteAccess

C23_SuccessfulConfiguration ==
    /\ [](\A c \in Callers : apc[c] \in {"update", "commit"} =>
             access[c] = Referenced(c))
    /\ [][\A c \in Callers : /\ ProceedsOnlyWhenPartial(c)
                             /\ ReturnsOneOnlyByCommit(c)
                             /\ CommitSetsOnlyThatRow(c)]_vars

\* A call with skx-manage has returned 1: the management access point has
\* its hostname and port and is 'new', the member access point is as it was.
C23_Witness ==
    \E c \in Callers :
        /\ apc[c] = "returned" /\ retval[c] = 1
        /\ aargs[c].key = "skx-manage"
        /\ accessPoints["ap1"] = [Hostname |-> <<aargs[c].hostname>>,
                                  Port |-> <<aargs[c].port>>,
                                  Lifecycle |-> "new"]
        /\ accessPoints["ap2"] \in AccessPointShapes

\* C24 - Write-once access point under concurrency: over every interleaving
\* of calls of addHostToAccessPoint for the same access point, at most one
\* call returns 1: the call that returns 1 is the one that takes the row from
\* 'partial' to 'new', and a row that is 'new' keeps its Hostname and Port.
ReturnsOneByTransition(c) ==
    (apc[c] = "commit" /\ apc'[c] = "returned" /\ retval'[c] = 1) =>
        /\ accessPoints[Val(access[c])].Lifecycle = "partial"
        /\ accessPoints[Val(access[c])].Hostname = NULL

NeverOverwritten ==
    \A a \in AccessPointIds :
        accessPoints[a].Lifecycle = "new" => accessPoints'[a] = accessPoints[a]

C24_WriteOnceAccessPoint ==
    [][NeverOverwritten /\ \A c \in Callers : ReturnsOneByTransition(c)]_vars

\* C25 - Ingress POST accounting: postBackboneIngress answers a request with
\* exactly one response.  When the form parses it is {processed: n}, n the
\* number of entries of fields.ingresses, taken in order, whose access point
\* could be configured, and those access points are configured; when the
\* form fails to parse it is the 400 and no access point is modified.
\* Judged for the requests whose store statements all succeed.
Configurable(aps, bsid, key) ==
    /\ key \in ValidKeys
    /\ bsid \in sites
    /\ siteAccess[bsid][ColumnOf(key)] # <<>>
    /\ aps[Val(siteAccess[bsid][ColumnOf(key)])].Hostname = NULL
    /\ aps[Val(siteAccess[bsid][ColumnOf(key)])].Lifecycle = "partial"

RECURSIVE Expected(_, _, _, _)
Expected(aps, bsid, entries, n) ==
    IF entries = <<>> THEN [aps |-> aps, n |-> n]
    ELSE LET e == Head(entries) IN
         IF Configurable(aps, bsid, e.key)
         THEN Expected([aps EXCEPT ![Val(siteAccess[bsid][ColumnOf(e.key)])] =
                           [Hostname |-> <<e.host>>, Port |-> <<e.port>>,
                            Lifecycle |-> "new"]],
                       bsid, Tail(entries), n + 1)
         ELSE Expected(aps, bsid, Tail(entries), n)

IngressAccounting ==
    (/\ request'.handler = "postBackboneIngress"
     /\ request'.fail = "none"
     /\ ~request'.rollbackFails) =>
        LET want == Expected(accessPoints, request'.bsid, request'.ingresses, 0) IN
        /\ Len(res'.sent) = 1
        /\ res'.rejected = 0
        /\ ~escaped'
        /\ IF request'.err
           THEN /\ res'.sent[1].status = 400
                /\ accessPoints' = accessPoints
           ELSE /\ res'.sent[1] = [status |-> 200, kind |-> "processed",
                                   n |-> want.n]
                /\ accessPoints' = want.aps

C25_IngressPostAccounting == [][IngressAccounting]_vars

\* C26 - One pass per worker: after Start, each worker of a controller has
\* at every moment at most one pass that is scheduled (a pending timer) or
\* running; the next pass is scheduled only by Start or at the end of the
\* current pass, exactly once; and no step of one worker changes what
\* another worker holds in the process (only Start, which schedules both,
\* and the end of the process touch two workers at once).
PassesOf(t) == timers[t] + (IF InPass(t) THEN 1 ELSE 0)

OnePass == \A t \in Threads : PassesOf(t) <= 1

LocalsOf(t) == <<pc[t], row[t], txnow[t], ins[t], upd[t], reschedule_delay[t],
                 held[t], timers[t]>>

ScheduledAtEnd(t) ==
    /\ timers'[t] > timers[t] =>
          /\ timers'[t] = timers[t] + 1
          /\ pc[t] \in {"unstarted", "commit", "rollback"}
    /\ (InPass(t) /\ pc'[t] = "timer") => timers'[t] = timers[t] + 1
    /\ (InPass(t) /\ InPass(t)') =>
          timers'[t] = timers[t]

NoSharedState ==
    \A t \in Threads : \A u \in Threads \ {t} :
        (LocalsOf(t)' # LocalsOf(t) /\ LocalsOf(u)' # LocalsOf(u)) =>
            /\ t[1] = u[1]
            /\ \/ pc[t] = "unstarted" /\ pc[u] = "unstarted"
               \/ pc'[t] = "stopped" /\ pc'[u] = "stopped"

C26_OnePassPerWorker ==
    /\ []OnePass
    /\ [][NoSharedState /\ \A t \in Threads : ScheduledAtEnd(t)]_vars

\* A worker has finished a pass that claimed a row and is scheduled again
\* while the other worker of its controller is in the middle of a pass.
C26_Witness ==
    \E p \in Procs :
        /\ timers[<<p, WorkerA>>] = 1
        /\ pc[<<p, WorkerA>>] = "timer"
        /\ reschedule_delay[<<p, WorkerA>>] = DrainDelay
        /\ InPass(<<p, WorkerB>>)

====
